---- MODULE Spec2Model ----
(***************************************************************************)
(* BugTrace telemetry pipeline: the capture agent of content-script.js     *)
(* (one instance per tab), the message relay (chrome.runtime messaging)    *)
(* and the aggregator of background.js; the query extractor, the fan-out  *)
(* and the feedback log of SuggestionService, the SuggestionPanel that     *)
(* calls it, GitHubService, and the observer ErrorDetector with App.       *)
(*                                                                         *)
(* A Signal is a function from field names to values, so that the object   *)
(* spreads of the source ({...details}, {...message.error, tabId, ...})     *)
(* are the override they are in JavaScript: g @@ f keeps g's fields.       *)
(* Fields whose value no modelled code reads (userAgent, stack, filename,  *)
(* method, statusText, description, cookie) are left out of the records.   *)
(* The fields em and arrival are history fields: the serial number of the  *)
(* captureError call that built the Signal and the serial number of the    *)
(* accept that stored it.                                                  *)
(***************************************************************************)
EXTENDS Integers, Sequences, FiniteSets, TLC

----------------------------------------------------------------------------
(* Bounds of the model *)

NumTabs == 2          \* tabs that run the content script
MaxEmit == 2          \* console calls of the pages in one behaviour of Spec
MaxCalls == 1         \* handlers of the capture agent run in one behaviour of SpecAgent
RandSpace == 2        \* distinct values of the random part of an id
MaxParts == 3         \* pieces of text in a message given to the query extractor
MaxSelect == 2        \* changes of the selected Signal in one behaviour of SpecPanel
MaxReports == 3       \* feedback reports in one behaviour of SpecFeedback
MaxRequests == 3      \* calls of GitHubService methods in one behaviour of SpecGitHub
MaxEvents == 3        \* mounts, unmounts and console calls in one behaviour of SpecDetector
MaxXhr == 4           \* uses of a page's XMLHttpRequest object in one behaviour of SpecXhr

(* Program constants *)

MAX_ERRORS == 200     \* background.js: "Keep only last 200 errors"
SCRIPT_DELAY == 2000  \* content-script.js: delay of the page scan
TEST_DELAY == 1000    \* content-script.js: delay of the test error

Tabs == 1..NumTabs

(* The page shown in tab t; tab 1 is served over https, the others http. *)
TabHttps(t) == t = 1
TabUrl(t) == IF TabHttps(t) THEN "https://site.example/" ELSE "http://site.example/"
RequestUrl == "/api/resource"

SeqToSet(s) == {s[i] : i \in 1..Len(s)}

----------------------------------------------------------------------------
VARIABLES
  globalErrors,   \* background.js: the aggregator's buffer
  accepted,       \* history: number of ERROR_CAPTURED messages handled
  accepts,        \* history: em -> number of times that emission was stored
  broadcast,      \* relay: count and payload of the ERROR_UPDATE messages sent
  channel,        \* relay: per tab, ERROR_CAPTURED messages in flight
  clock,          \* Date.now() and new Date(), in milliseconds
  timers,         \* per tab: the pending setTimeout callbacks of the content script
  prng,           \* per tab: state of Math.random
  headPending,    \* per tab: the HEAD request of scanSecurityHeaders is in flight
  emitted,        \* history: number of captureError calls
  budget,         \* handlers of the capture agent still to run in this behaviour
  sends,          \* history: em -> number of sendMessage calls for that emission
  last,           \* history: the handler that ran last, its inputs and outcome
  calls,          \* SuggestionService: the getSuggestions calls that have not returned
  selectedError,  \* SuggestionPanel: the prop selectedError (the id of a Signal)
  suggestions,    \* SuggestionPanel: the state suggestions
  loading,        \* SuggestionPanel: the state loading
  feedback,       \* localStorage of the extension: the item 'bugtrace-feedback'
  reported,       \* history: number of saveSuggestionFeedback calls
  octokit,        \* GitHubService: the field octokit (the token of the client, or "null")
  isAuthenticated, \* GitHubService: the field isAuthenticated
  github_token,   \* chrome.storage.local: the item github_token, "none" if absent
  storageOps,     \* chrome.storage.local: the service's requests in flight, oldest first
  validations,    \* GitHub: the authenticate calls whose validation request is in flight
  requests,       \* history: number of requests sent to GitHub
  isListening,    \* ErrorDetector: the field isListening
  attached,       \* chrome.runtime.onMessage: handleMessage is a listener
  consoleListeners, \* ErrorDetector: the field consoleListeners
  networkListeners, \* ErrorDetector: the field networkListeners
  intervals,      \* the panel page: number of setInterval timers that run
  syncs,          \* relay: GET_ERRORS requests of the panel whose callback has not run
  delivered,      \* relay: number of ERROR_UPDATE messages that have reached the panel
  mounted,        \* App: the effect has run and its cleanup has not
  errors,         \* App: the state errors
  notifications,  \* history: the calls of the registered callbacks
  xhr             \* per tab: the XMLHttpRequest object the page uses

aggVars == <<globalErrors, accepted, accepts, broadcast>>
agentVars == <<channel, timers, prng, headPending, emitted, budget, sends>>
panelVars == <<calls, selectedError, suggestions, loading>>
feedbackVars == <<feedback, reported>>
githubVars == <<octokit, isAuthenticated, github_token, storageOps, validations, requests>>
detectorVars == <<isListening, attached, consoleListeners, networkListeners, intervals,
                  syncs, delivered, mounted, errors, notifications>>
extensionVars == <<feedbackVars, githubVars, detectorVars>>
appVars == <<extensionVars, xhr>>
vars == <<globalErrors, accepted, accepts, broadcast, channel,
          clock, timers, prng, headPending, emitted, budget, sends, last,
          calls, selectedError, suggestions, loading, appVars>>

----------------------------------------------------------------------------
(* Aggregator: background.js *)

(* The entry stored for a message: {...message.error, tabId, url, timestamp}. *)
StoredEntry(error, tab, now, n) ==
  [tabId |-> tab, url |-> TabUrl(tab), timestamp |-> now, arrival |-> n] @@ error

Unshift(buf, entry) == <<entry>> \o buf

(* globalErrors.push(entry) *)
Push(buf, entry) == Append(buf, entry)

KeepFirst(buf) ==
  IF Len(buf) > MAX_ERRORS THEN SubSeq(buf, 1, MAX_ERRORS) ELSE buf

(* if (length > 200) globalErrors = globalErrors.slice(-200) *)
KeepLast(buf) ==
  IF Len(buf) > MAX_ERRORS
  THEN SubSeq(buf, Len(buf) - MAX_ERRORS + 1, Len(buf))
  ELSE buf

PurgeOthers(buf, tab) == SelectSeq(buf, LAMBDA error : error.tabId = tab)

PurgeAll(buf, tab) == <<>>

PurgeReversed(buf, tab) ==
  LET kept == SelectSeq(buf, LAMBDA error : error.tabId # tab)
  IN [i \in 1..Len(kept) |-> kept[Len(kept) + 1 - i]]

(* globalErrors.filter(error => error.tabId !== tabId) *)
PurgeTab(buf, tab) == SelectSeq(buf, LAMBDA error : error.tabId # tab)

(* onMessage, message.type === 'ERROR_CAPTURED': the relay delivers the       *)
(* oldest message in flight from tab t.  The clock is read after the        *)
(* message has crossed from the page to the service worker, which takes a   *)
(* millisecond.                                                             *)
ErrorCaptured(t) ==
  /\ channel[t] # <<>>
  /\ clock' = clock + 1
  /\ LET error == Head(channel[t])
         pushed == Push(globalErrors, StoredEntry(error, t, clock', accepted + 1))
     IN /\ globalErrors' = KeepLast(pushed)
        /\ accepted' = accepted + 1
        /\ accepts' = IF error.em \in DOMAIN accepts
                      THEN [accepts EXCEPT ![error.em] = @ + 1]
                      ELSE (error.em :> 1) @@ accepts
        /\ broadcast' = [n |-> broadcast.n + 1, errors |-> KeepLast(pushed)]
        /\ last' = [op |-> "ERROR_CAPTURED", tab |-> t,
                    evicted |-> SeqToSet(pushed) \ SeqToSet(KeepLast(pushed))]
  /\ channel' = [channel EXCEPT ![t] = Tail(@)]
  /\ UNCHANGED <<timers, prng, headPending, emitted, budget, sends>>
  /\ UNCHANGED panelVars
  /\ UNCHANGED appVars

(* onMessage, message.type === 'GET_ERRORS': sendResponse({errors}) *)
SyncResponseLatest(buf) == [errors |-> IF buf = <<>> THEN buf ELSE <<buf[Len(buf)]>>]
SyncResponse(buf) == [errors |-> buf]

GetErrors ==
  /\ last' = [op |-> "GET_ERRORS", response |-> SyncResponse(globalErrors)]
  /\ UNCHANGED <<globalErrors, accepted, accepts, broadcast>>
  /\ UNCHANGED agentVars
  /\ UNCHANGED clock
  /\ UNCHANGED appVars
  /\ UNCHANGED panelVars

(* tabs.onUpdated(tabId, changeInfo) *)
TabUpdated(t, status) ==
  /\ globalErrors' = IF status = "loading" THEN PurgeTab(globalErrors, t) ELSE globalErrors
  /\ last' = [op |-> "tabs.onUpdated", tab |-> t, status |-> status,
              held |-> Cardinality({i \in 1..Len(globalErrors) : globalErrors[i].tabId = t})]
  /\ UNCHANGED <<accepted, accepts, broadcast>>
  /\ UNCHANGED agentVars
  /\ UNCHANGED clock
  /\ UNCHANGED appVars
  /\ UNCHANGED panelVars

----------------------------------------------------------------------------
(* Capture agent: content-script.js.  A handler of tab t threads a context  *)
(* c through the calls it makes: the tab's queue of messages in flight, the *)
(* state of Math.random, the signals built so far (out) and whether the     *)
(* last call threw.  What the handler finds around it is part of the        *)
(* context: up, whether the extension's receiving end is there, and item,   *)
(* whether the page's localStorage item 'bugtrace-errors' parses as JSON    *)
(* (the page shares the item and can write anything to it).  The counter    *)
(* errorCount and the content of the stored list are read by no code and    *)
(* are not modelled.                                                        *)

Envs == [up : BOOLEAN, item : {"list", "garbage"}]
NormalEnv == [up |-> TRUE, item |-> "list"]

(* The environments to tell apart for a handler run: every one if the run    *)
(* calls captureError, one if it consults neither relay nor store.           *)
EnvsFor(emits) == IF emits THEN Envs ELSE {NormalEnv}

Ctx(t, env) ==
  [chan |-> channel[t], prng |-> prng[t], emitted |-> emitted, sends |-> sends,
   up |-> env.up, item |-> env.item, out |-> <<>>, threw |-> FALSE]

(* Math.random().toString(36).substr(2, 9): the value drawn in PRNG state s. *)
Random(s) == s % RandSpace

SendMessageRetry(c, error) ==
  [c EXCEPT !.sends = IF error.em \in DOMAIN @
                      THEN [@ EXCEPT ![error.em] = @ + (IF c.up THEN 1 ELSE 2)]
                      ELSE (error.em :> (IF c.up THEN 1 ELSE 2)) @@ @,
            !.chan = IF c.up THEN Append(@, error) ELSE @]

(* chrome.runtime.sendMessage({type: 'ERROR_CAPTURED', error}).catch(...):    *)
(* one send; a rejected send is logged and dropped.                          *)
SendMessage(c, error) ==
  [c EXCEPT !.sends = IF error.em \in DOMAIN @
                      THEN [@ EXCEPT ![error.em] = @ + 1]
                      ELSE (error.em :> 1) @@ @,
            !.chan = IF c.up THEN Append(@, error) ELSE @]

(* localStorage: getItem, JSON.parse, unshift, splice(50), setItem.  Parsing *)
(* an item that is not JSON throws; setItem leaves a JSON list.              *)
StoreLocally(c) ==
  IF c.item = "list"
  THEN [c EXCEPT !.item = "list", !.threw = FALSE]
  ELSE [c EXCEPT !.threw = TRUE]

(* The Signal of captureError: {id, timestamp, type, severity, message, url, *)
(* ...details}; the fields of details override the ones before them.         *)
BuildError(c, t, type, severity, message, details) ==
  details @@ [id |-> [ms |-> clock, rnd |-> Random(c.prng)],
              timestamp |-> clock, type |-> type, severity |-> severity,
              message |-> message, url |-> TabUrl(t), em |-> c.emitted + 1]

captureError(c, t, type, severity, message, details) ==
  LET error == BuildError(c, t, type, severity, message, details)
      c1 == [c EXCEPT !.emitted = @ + 1, !.prng = @ + 1, !.out = Append(@, error)]
  IN StoreLocally(SendMessage(c1, error))

RECURSIVE captureAll(_, _, _)
(* items.forEach(item => this.captureError(...)): an exception ends the loop. *)
captureAll(c, t, items) ==
  IF items = <<>> THEN c
  ELSE LET i == Head(items)
           c1 == captureError(c, t, i.type, i.severity, i.message, i.details)
       IN IF c1.threw THEN c1 ELSE captureAll(c1, t, Tail(items))

NoDetails == [x \in {} |-> 0]

(* The agent's variables after a handler of tab t ends in context c. *)
Commit(c, t) ==
  /\ budget > 0
  /\ budget' = budget - 1
  /\ channel' = [channel EXCEPT ![t] = c.chan]
  /\ prng' = [prng EXCEPT ![t] = c.prng]
  /\ emitted' = c.emitted
  /\ sends' = c.sends

(* console.error / console.warn as replaced by setupErrorCapture. *)
ConsoleLevels == {"error", "warn"}
ConsoleSeverity(level) == IF level = "error" THEN "error" ELSE "warning"

ConsoleCall(t, level, env) ==
  LET c == captureError(Ctx(t, env), t, "console", ConsoleSeverity(level), "page message", NoDetails)
  IN /\ Commit(c, t)
     /\ last' = [op |-> "console", tab |-> t, env |-> env, level |-> level, out |-> c.out, threw |-> c.threw]
     /\ UNCHANGED <<timers, headPending>>
     /\ UNCHANGED aggVars
     /\ UNCHANGED clock
     /\ UNCHANGED appVars
     /\ UNCHANGED panelVars

(* window 'error' listener *)
WindowError(t, env) ==
  LET c == captureError(Ctx(t, env), t, "runtime", "error", "Uncaught error", NoDetails)
  IN /\ Commit(c, t)
     /\ last' = [op |-> "error", tab |-> t, env |-> env, out |-> c.out, threw |-> c.threw]
     /\ UNCHANGED <<timers, headPending>>
     /\ UNCHANGED aggVars
     /\ UNCHANGED clock
     /\ UNCHANGED appVars
     /\ UNCHANGED panelVars

(* window 'unhandledrejection' listener *)
UnhandledRejection(t, env) ==
  LET c == captureError(Ctx(t, env), t, "promise", "error", "rejection reason", NoDetails)
  IN /\ Commit(c, t)
     /\ last' = [op |-> "unhandledrejection", tab |-> t, env |-> env, out |-> c.out, threw |-> c.threw]
     /\ UNCHANGED <<timers, headPending>>
     /\ UNCHANGED aggVars
     /\ UNCHANGED clock
     /\ UNCHANGED appVars
     /\ UNCHANGED panelVars

(* setupReactErrorCapture: installed when the page has React.Component with  *)
(* a componentDidCatch on its prototype; tab 2 shows such a page.            *)
TabHasReact(t) == t = 2

ComponentDidCatch(t, env) ==
  /\ TabHasReact(t)
  /\ LET c == captureError(Ctx(t, env), t, "react", "error", "render error", NoDetails)
     IN /\ Commit(c, t)
        /\ last' = [op |-> "componentDidCatch", tab |-> t, env |-> env, out |-> c.out, threw |-> c.threw]
  /\ UNCHANGED <<timers, headPending>>
  /\ UNCHANGED aggVars
  /\ UNCHANGED clock
  /\ UNCHANGED appVars
  /\ UNCHANGED panelVars

(* setupPerformanceMonitoring: the observer's callback for one 'measure'     *)
(* entry of the given duration.                                             *)
SLOW_MEASURE == 1000
Durations == {SLOW_MEASURE, SLOW_MEASURE + 1}

PerformanceEntry(t, duration, env) ==
  LET c == IF duration > SLOW_MEASURE
           THEN captureError(Ctx(t, env), t, "performance", "warning", "Slow operation detected", NoDetails)
           ELSE Ctx(t, env)
  IN /\ Commit(c, t)
     /\ last' = [op |-> "performance", tab |-> t, env |-> env, duration |-> duration, out |-> c.out, threw |-> c.threw]
     /\ UNCHANGED <<timers, headPending>>
     /\ UNCHANGED aggVars
     /\ UNCHANGED clock
     /\ UNCHANGED appVars
     /\ UNCHANGED panelVars

(* window.fetch as replaced by setupNetworkInterception.  orig is the way    *)
(* the original fetch settles; the result is the context and the way the    *)
(* wrapper's promise settles for its caller.                                *)
Statuses == {200, 399, 400, 499, 500}
Response(s) == [kind |-> "response", status |-> s, error |-> ""]
Rejection(e) == [kind |-> "rejected", status |-> 0, error |-> e]
FetchOutcomes == {Response(s) : s \in Statuses} \cup {Rejection("Failed to fetch")}
StorageError == "Unexpected token in JSON"

ResponseOk(s) == s >= 200 /\ s <= 299
NetworkSeverityAbove(s) == IF s > 500 THEN "error" ELSE "warning"
NetworkSeverity(s) == IF s >= 500 THEN "error" ELSE "warning"
HttpMessage(s) ==
  CASE s = 399 -> "HTTP 399: "
    [] s = 400 -> "HTTP 400: Bad Request"
    [] s = 499 -> "HTTP 499: "
    [] s = 500 -> "HTTP 500: Internal Server Error"
    [] OTHER -> "HTTP 200: OK"
FailedMessage(e) ==
  IF e = StorageError THEN "Network request failed: Unexpected token in JSON"
  ELSE "Network request failed: Failed to fetch"

(* catch (error) { this.captureError('network', 'error', ...); throw error } *)
FetchCatch(c, t, url, e) ==
  LET c1 == captureError(c, t, "network", "error", FailedMessage(e),
                         [url |-> url, error |-> e])
  IN [ctx |-> [c1 EXCEPT !.threw = FALSE],
      seen |-> Rejection(IF c1.threw THEN StorageError ELSE e)]

(* Whether the wrapper reports the way the original fetch settled. *)
Captured(orig) ==
  orig.kind = "rejected" \/ (~ResponseOk(orig.status) /\ orig.status >= 400)

(* window.fetch = async (...args): url is args[0]. *)
FetchWrapper(c, t, url, orig) ==
  IF orig.kind = "response"
  THEN IF Captured(orig)
       THEN LET c1 == captureError(c, t, "network", NetworkSeverity(orig.status),
                                   HttpMessage(orig.status),
                                   [url |-> url, status |-> orig.status])
            IN IF c1.threw
               THEN FetchCatch(c1, t, url, StorageError)
               ELSE [ctx |-> c1, seen |-> orig]
       ELSE [ctx |-> c, seen |-> orig]
  ELSE FetchCatch(c, t, url, orig.error)

(* A fetch call of the page settles. *)
PageFetch(t, orig, env) ==
  LET r == FetchWrapper(Ctx(t, env), t, RequestUrl, orig)
  IN /\ Commit(r.ctx, t)
     /\ last' = [op |-> "fetch", tab |-> t, env |-> env, orig |-> orig, seen |-> r.seen, out |-> r.ctx.out]
     /\ UNCHANGED <<timers, headPending>>
     /\ UNCHANGED aggVars
     /\ UNCHANGED clock
     /\ UNCHANGED appVars
     /\ UNCHANGED panelVars

(* XMLHttpRequest as replaced by setupNetworkMonitoring.  The object of a    *)
(* page is modelled by its property onreadystatechange: the page's own      *)
(* handler (page) or none, inside the functions that the replaced send has  *)
(* put around it (wrappers), and by whether a request is in flight.        *)
DONE == 4
HEADERS_RECEIVED == 2
XhrChanges == {<<HEADERS_RECEIVED, 200>>} \cup {<<DONE, s>> : s \in Statuses}

(* new XMLHttpRequest() *)
FreshXhr == [wrappers |-> 0, page |-> FALSE, inFlight |-> FALSE]

(* An object whose handler the page has set and that it has sent once. *)
SentXhr == [wrappers |-> 1, page |-> TRUE, inFlight |-> TRUE]

PageStep(t) ==
  /\ budget > 0
  /\ budget' = budget - 1
  /\ last' = [op |-> "page", tab |-> t]
  /\ UNCHANGED <<channel, timers, prng, headPending, emitted, sends>>
  /\ UNCHANGED aggVars
  /\ UNCHANGED clock
  /\ UNCHANGED extensionVars
  /\ UNCHANGED panelVars

(* The page assigns its handler: xhr.onreadystatechange = handler. *)
XhrSetHandler(t) ==
  /\ ~(xhr[t].page /\ xhr[t].wrappers = 0)
  /\ xhr' = [xhr EXCEPT ![t].page = TRUE, ![t].wrappers = 0]
  /\ PageStep(t)

(* The page calls open and send on an object that has no request in flight: *)
(* send keeps the current value of onreadystatechange as                    *)
(* originalOnReadyStateChange and assigns a function that calls it.         *)
XhrSend(t) ==
  /\ ~xhr[t].inFlight
  /\ xhr' = [xhr EXCEPT ![t].wrappers = @ + 1, ![t].inFlight = TRUE]
  /\ PageStep(t)

(* The value of onreadystatechange runs: each function assigned by send     *)
(* calls captureError for a finished request with a status of 400 or more   *)
(* and then the function it was put around.                                 *)
RECURSIVE XhrHandler(_, _, _, _, _)
XhrHandler(c, t, wrappers, readyState, status) ==
  IF wrappers = 0 THEN c
  ELSE LET c1 == IF readyState = DONE /\ status >= 400
                 THEN captureError(c, t, "network", NetworkSeverity(status),
                                   HttpMessage(status), [url |-> RequestUrl, status |-> status])
                 ELSE c
       IN IF c1.threw THEN c1 ELSE XhrHandler(c1, t, wrappers - 1, readyState, status)

(* One ready-state change of the request in flight. *)
XhrReadyStateChange(t, readyState, status, env) ==
  LET c == XhrHandler(Ctx(t, env), t, xhr[t].wrappers, readyState, status)
  IN /\ xhr[t].inFlight
     /\ Commit(c, t)
     /\ xhr' = [xhr EXCEPT ![t].inFlight = readyState # DONE]
     /\ last' = [op |-> "xhr", tab |-> t, env |-> env, readyState |-> readyState, status |-> status,
                 out |-> c.out, threw |-> c.threw, object |-> xhr[t],
                 pageHandlerCalled |-> xhr[t].page /\ ~c.threw]
     /\ UNCHANGED <<timers, headPending>>
     /\ UNCHANGED aggVars
     /\ UNCHANGED clock
     /\ UNCHANGED extensionVars
     /\ UNCHANGED panelVars

----------------------------------------------------------------------------
(* Page scan: scanPageForVulnerabilities and what it calls.  The text of a   *)
(* script is a sequence of fragments; a detector's pattern matches at the   *)
(* positions that hold its fragment.                                        *)

Detectors ==
  << [token |-> "eval(", type |-> "Code Injection", severity |-> "HIGH",
      message |-> "Security vulnerability detected: Use of eval() detected - potential code injection risk"],
     [token |-> "innerHTML = a + b", type |-> "XSS", severity |-> "HIGH",
      message |-> "Security vulnerability detected: Dynamic innerHTML assignment - potential XSS risk"],
     [token |-> "document.write(", type |-> "XSS", severity |-> "MEDIUM",
      message |-> "Security vulnerability detected: document.write() usage detected - potential XSS risk"] >>

(* pattern.test(code) *)
PatternTest(d, code) == \E i \in 1..Len(code) : code[i] = d.token

RECURSIVE ScanWith(_, _)
(* scanCodeForVulnerabilities: one {type, severity, description} for each    *)
(* pattern that matches the code, in the order of the patterns.             *)
ScanWith(ds, code) ==
  IF ds = <<>> THEN <<>>
  ELSE (IF PatternTest(Head(ds), code) THEN <<Head(ds)>> ELSE <<>>) \o ScanWith(Tail(ds), code)

scanCodeForVulnerabilities(code) == ScanWith(Detectors, code)

RECURSIVE ScanScripts(_)
(* scripts.forEach: scripts with an empty innerHTML are passed over. *)
ScanScripts(scripts) ==
  IF scripts = <<>> THEN <<>>
  ELSE (IF Head(scripts) # <<>> THEN scanCodeForVulnerabilities(Head(scripts)) ELSE <<>>)
       \o ScanScripts(Tail(scripts))

(* The captureError call made for one vulnerability: the vulnerability is    *)
(* passed as the details.                                                   *)
VulnItem(v) ==
  [type |-> "security", severity |-> "warning", message |-> v.message,
   details |-> [type |-> v.type, severity |-> v.severity]]

RECURSIVE VulnItems(_)
VulnItems(vs) == IF vs = <<>> THEN <<>> ELSE <<VulnItem(Head(vs))>> \o VulnItems(Tail(vs))

(* scanCookieSettings: one Signal for each cookie that is not empty and does *)
(* not contain 'Secure', on an https page.                                  *)
CookieFlagged(t, cookie) == cookie # "" /\ TabHttps(t)

RECURSIVE CookieItems(_, _)
CookieItems(t, cookies) ==
  IF cookies = <<>> THEN <<>>
  ELSE (IF CookieFlagged(t, Head(cookies))
        THEN << [type |-> "security", severity |-> "warning",
                 message |-> "Cookie without Secure flag on HTTPS site",
                 details |-> [type |-> "cookie"]] >>
        ELSE <<>>) \o CookieItems(t, Tail(cookies))

(* The pages a scan may find: inline scripts and document.cookie.split(';'). *)
EvalTwice == <<"eval(", "x", "eval(">>
DocWrite == <<"document.write(">>
ScriptLists == { <<>>, <<EvalTwice>>, <<EvalTwice, EvalTwice>>, <<<<>>, DocWrite, EvalTwice>> }
CookieLists == { <<"">>, <<"sid=1">> }

(* The callback of setTimeout(..., 2000) in scanPageForVulnerabilities.  An  *)
(* exception of captureError ends the callback where it is thrown.          *)
ScanCallback(c, t, scripts, cookies) ==
  LET c1 == captureAll(c, t, VulnItems(ScanScripts(scripts)))
  IN IF c1.threw
     THEN [ctx |-> c1, head |-> FALSE]
     ELSE [ctx |-> captureAll(c1, t, CookieItems(t, cookies)), head |-> TRUE]

Delay(timer) == IF timer = "scan" THEN SCRIPT_DELAY ELSE TEST_DELAY
TimerDue(t, timer) ==
  /\ timer \in timers[t]
  /\ \A other \in timers[t] : Delay(timer) <= Delay(other)

ScanTimer(t, scripts, cookies, env) ==
  /\ TimerDue(t, "scan")
  /\ LET r == ScanCallback(Ctx(t, env), t, scripts, cookies)
     IN /\ Commit(r.ctx, t)
        /\ headPending' = [headPending EXCEPT ![t] = r.head]
        /\ last' = [op |-> "scan", tab |-> t, env |-> env, scripts |-> scripts, cookies |-> cookies,
                    out |-> r.ctx.out, threw |-> r.ctx.threw]
  /\ timers' = [timers EXCEPT ![t] = @ \ {"scan"}]
  /\ UNCHANGED aggVars
  /\ UNCHANGED clock
  /\ UNCHANGED appVars
  /\ UNCHANGED panelVars

(* The callback of the last setTimeout of the file: console.error(...)       *)
TestMessage == "BugTrace test error: Extension is working!"

TestErrorTimer(t, env) ==
  /\ TimerDue(t, "test")
  /\ LET c == captureError(Ctx(t, env), t, "console", "error", TestMessage, NoDetails)
     IN /\ Commit(c, t)
        /\ last' = [op |-> "test", tab |-> t, env |-> env, out |-> c.out, threw |-> c.threw]
  /\ timers' = [timers EXCEPT ![t] = @ \ {"test"}]
  /\ UNCHANGED headPending
  /\ UNCHANGED aggVars
  /\ UNCHANGED clock
  /\ UNCHANGED appVars
  /\ UNCHANGED panelVars

(* scanSecurityHeaders: fetch(location.href, {method: 'HEAD'}) goes through  *)
(* the replaced window.fetch; .then reports the missing headers, .catch     *)
(* ignores a rejection.                                                     *)
SecurityHeaders == <<"Content-Security-Policy", "X-Frame-Options", "X-Content-Type-Options">>
HeaderMessage(h) ==
  CASE h = "Content-Security-Policy" -> "Missing Content-Security-Policy header"
    [] h = "X-Frame-Options" -> "Missing X-Frame-Options header - clickjacking risk"
    [] OTHER -> "Missing X-Content-Type-Options header"
HeaderSets == { {"Content-Security-Policy", "X-Frame-Options"}, SeqToSet(SecurityHeaders) }

RECURSIVE HeaderItems(_, _)
HeaderItems(hs, present) ==
  IF hs = <<>> THEN <<>>
  ELSE (IF Head(hs) \notin present
        THEN << [type |-> "security", severity |-> "warning", message |-> HeaderMessage(Head(hs)),
                 details |-> [type |-> "header"]] >>
        ELSE <<>>) \o HeaderItems(Tail(hs), present)

HeadCheck(c, t, orig, present) ==
  LET r == FetchWrapper(c, t, TabUrl(t), orig)
  IN IF r.seen.kind = "response"
     THEN [captureAll(r.ctx, t, HeaderItems(SecurityHeaders, present)) EXCEPT !.threw = FALSE]
     ELSE r.ctx

HeadSettles(t, orig, present, env) ==
  /\ headPending[t]
  /\ LET c == HeadCheck(Ctx(t, env), t, orig, present)
     IN /\ Commit(c, t)
        /\ last' = [op |-> "head", tab |-> t, env |-> env, orig |-> orig, present |-> present,
                    out |-> c.out, threw |-> c.threw]
  /\ headPending' = [headPending EXCEPT ![t] = FALSE]
  /\ UNCHANGED timers
  /\ UNCHANGED aggVars
  /\ UNCHANGED clock
  /\ UNCHANGED appVars
  /\ UNCHANGED panelVars

----------------------------------------------------------------------------
(* Query extractor: SuggestionService.extractSearchQuery.  A string is the  *)
(* sequence of its characters.                                              *)

QUERY_LIMIT == 100    \* extractSearchQuery: "Limit query length"

Digits == {"0", "1", "2", "3", "4", "5", "6", "7", "8", "9"}
Letters == {"a", "c", "e", "f", "g", "h", "k", "l", "n", "o", "p", "r", "s", "t", "w", "x", "y",
            "E", "R", "S", "T"}
Quotes == {"'", "\""}
IsSpace(c) == c = " "                         \* \s
IsWord(c) == c \in Letters \cup Digits \cup {"_"}   \* \w

MinOf(S) == CHOOSE x \in S : \A y \in S : x <= y
MaxOf(S) == 0 - MinOf({0 - x : x \in S})

From(str, p) == SubSeq(str, p, Len(str))
StartsAt(str, p, w) ==
  /\ p >= 1
  /\ p + Len(w) - 1 <= Len(str)
  /\ \A k \in 1..Len(w) : str[p + k - 1] = w[k]

(* String.prototype.trim *)
Trim(str) ==
  LET solid == {i \in 1..Len(str) : ~IsSpace(str[i])}
  IN IF solid = {} THEN <<>> ELSE SubSeq(str, MinOf(solid), MaxOf(solid))

(* The last index of the longest run of characters of one class that       *)
(* starts at p, p - 1 if there is none: \d+, [^\s]+ and \w+ are greedy.     *)
RunEnd(str, p, stops) ==
  LET later == {e \in stops : e >= p}
  IN IF later = {} THEN Len(str) ELSE MinOf(later) - 1

NonDigits(str) == {e \in 1..Len(str) : str[e] \notin Digits}
Spaces(str) == {e \in 1..Len(str) : IsSpace(str[e])}
NonWords(str) == {e \in 1..Len(str) : ~IsWord(str[e])}

(* :\d+:\d+ at q: the index of its last character, 0 if it does not match. *)
LineColEnd(str, q) ==
  IF q > Len(str) \/ str[q] # ":" THEN 0
  ELSE LET e1 == RunEnd(str, q + 1, NonDigits(str))
       IN IF e1 < q + 1 \/ e1 + 1 > Len(str) \/ str[e1 + 1] # ":" THEN 0
          ELSE LET e2 == RunEnd(str, e1 + 2, NonDigits(str))
               IN IF e2 < e1 + 2 THEN 0 ELSE e2

AT == <<"a", "t", " ">>

RECURSIVE RemoveStackLocations(_)
(* .replace(/at .+:\d+:\d+/g, ''): from the first "at " that has a          *)
(* line:column after at least one more character, to the end of the last    *)
(* line:column (.+ is greedy).                                              *)
RemoveStackLocations(str) ==
  LET starts == {p \in 1..Len(str) :
                   /\ StartsAt(str, p, AT)
                   /\ \E q \in (p + 4)..Len(str) : LineColEnd(str, q) > 0}
  IN IF starts = {} THEN str
     ELSE LET p == MinOf(starts)
              q == MaxOf({x \in (p + 4)..Len(str) : LineColEnd(str, x) > 0})
          IN SubSeq(str, 1, p - 1) \o RemoveStackLocations(From(str, LineColEnd(str, q) + 1))

RECURSIVE RemoveParentheses(_)
(* .replace(/\(.*\)/g, ''): from the first "(" to the last ")" after it. *)
RemoveParentheses(str) ==
  LET opens == {p \in 1..Len(str) : str[p] = "(" /\ \E q \in (p + 1)..Len(str) : str[q] = ")"}
  IN IF opens = {} THEN str
     ELSE LET p == MinOf(opens)
              q == MaxOf({x \in (p + 1)..Len(str) : str[x] = ")"})
          IN SubSeq(str, 1, p - 1) \o RemoveParentheses(From(str, q + 1))

HTTP == <<"h", "t", "t", "p", ":", "/", "/">>
HTTPS == <<"h", "t", "t", "p", "s", ":", "/", "/">>

(* https?:\/\/[^\s]+ at p: the index of its last character, 0 if no match. *)
UrlEnd(str, p) ==
  LET body == IF StartsAt(str, p, HTTPS) THEN p + Len(HTTPS)
              ELSE IF StartsAt(str, p, HTTP) THEN p + Len(HTTP)
              ELSE 0
  IN IF body = 0 THEN 0
     ELSE LET e == RunEnd(str, body, Spaces(str))
          IN IF e < body THEN 0 ELSE e

RECURSIVE RemoveUrls(_)
(* .replace(/https?:\/\/[^\s]+/g, '') *)
RemoveUrls(str) ==
  LET starts == {p \in 1..Len(str) : UrlEnd(str, p) > 0}
  IN IF starts = {} THEN str
     ELSE LET p == MinOf(starts)
          IN SubSeq(str, 1, p - 1) \o RemoveUrls(From(str, UrlEnd(str, p) + 1))

(* .replace(/\d+/g, '') and .replace(/['"]/g, '') *)
RemoveNumbers(str) == SelectSeq(str, LAMBDA c : c \notin Digits)
RemoveQuotes(str) == SelectSeq(str, LAMBDA c : c \notin Quotes)

(* The cleaning chain of extractSearchQuery, in its order. *)
CleanUp(str) ==
  Trim(RemoveQuotes(RemoveNumbers(RemoveUrls(RemoveParentheses(RemoveStackLocations(str))))))

ERROR == <<"E", "r", "r", "o", "r">>

(* query.match(/^(\w+Error|Error)/): the length of the match, 0 if none.    *)
(* \w+ is greedy, so the match ends at the last "Error" of the leading run  *)
(* of word characters that has a word character before it.                  *)
ErrorTypeMatch(str) ==
  LET ks == {k \in 1..RunEnd(str, 1, NonWords(str)) : StartsAt(str, k + 1, ERROR)}
  IN IF ks # {} THEN MaxOf(ks) + Len(ERROR)
     ELSE IF StartsAt(str, 1, ERROR) THEN Len(ERROR)
     ELSE 0

ErrorTypeAppended(str) ==
  LET n == ErrorTypeMatch(str)
  IN IF n = 0 THEN str
     ELSE Trim(From(str, n + 1)) \o <<" ">> \o SubSeq(str, 1, n)

(* `${errorType} ${query.replace(errorType, '').trim()}`: the first        *)
(* occurrence of errorType in query is the match itself.                    *)
ErrorTypeFirst(str) ==
  LET n == ErrorTypeMatch(str)
  IN IF n = 0 THEN str
     ELSE SubSeq(str, 1, n) \o <<" ">> \o Trim(From(str, n + 1))

TrimTruncated(str) == Trim(SubSeq(str, 1, QUERY_LIMIT))

(* if (query.length > 100) query = query.substring(0, 100).trim() *)
LimitLength(str) == IF Len(str) > QUERY_LIMIT THEN TrimTruncated(str) ELSE str

extractSearchQuery(error) ==
  LET query == LimitLength(ErrorTypeFirst(CleanUp(error.message)))
  IN IF query = <<>> THEN error.type ELSE query

(* The messages and kinds the extractor is given: up to MaxParts pieces of  *)
(* text, one after the other.                                               *)
Filler == [i \in 1..(QUERY_LIMIT - 1) |-> "a"]
Pieces ==
  { <<"T", "y", "p", "e", "E", "r", "r", "o", "r">>, ERROR, <<"x">>, <<" ">>,
    <<"4">>, <<"'">>, <<"(">>, <<")">>, <<"h", "t", "t", "p">>,
    <<":", "/", "/", "h">>, AT, <<":", "4", ":", "2">>, Filler }

RECURSIVE Concat(_)
Concat(parts) == IF parts = <<>> THEN <<>> ELSE Head(parts) \o Concat(Tail(parts))

Messages == {Concat(parts) : parts \in UNION {[1..n -> Pieces] : n \in 0..MaxParts}}
QueryKinds == { <<"c", "o", "n", "s", "o", "l", "e">>, <<"n", "e", "t", "w", "o", "r", "k">> }

(* extractSearchQuery is called for a Signal, and once more for a Signal    *)
(* whose message is the query it returned.                                  *)
ExtractSearchQuery(message, kind) ==
  /\ LET query == extractSearchQuery([message |-> message, type |-> kind])
     IN last' = [op |-> "extractSearchQuery", message |-> message, kind |-> kind,
                 query |-> query,
                 again |-> extractSearchQuery([message |-> query, type |-> kind])]
  /\ UNCHANGED aggVars
  /\ UNCHANGED agentVars
  /\ UNCHANGED clock
  /\ UNCHANGED appVars
  /\ UNCHANGED panelVars

----------------------------------------------------------------------------
(* Suggestion service: SuggestionService.getSuggestions.  A call is a       *)
(* record: who called it, for which Signal, the searchOptions, the list     *)
(* suggestions, and at, the await the call is suspended at (the source      *)
(* whose request is in flight) or "returned" / "rejected" once it is over.  *)
(* History fields: log, the requests and settlements in their order; got,   *)
(* what each source that answered gave; failed, the sources whose search    *)
(* threw.                                                                   *)

DEFAULT_MAX == 10     \* getSuggestions: options.maxResults || 10
PANEL_MAX == 20       \* SuggestionPanel: maxResults: 20

(* The sources in the order getSuggestions consults them. *)
Sources == <<"stackoverflow", "github", "mdn">>
DefaultSources == {"stackoverflow", "github"}
SourceIndex(src) == CHOOSE i \in 1..Len(Sources) : Sources[i] = src

(* The Signals suggestions are asked for. *)
ErrorIds == {"A", "B"}
ErrorOf(id) ==
  IF id = "A"
  THEN [id |-> id, type |-> <<"c", "o", "n", "s", "o", "l", "e">>, message |-> <<"R", "a", "n", "g", "e", "E", "r", "r", "o", "r", " ", "T", "y", "p", "e", "E", "r", "r", "o", "r">>]
  ELSE [id |-> id, type |-> <<"n", "e", "t", "w", "o", "r", "k">>, message |-> <<"x", " ", "4">>]

(* slice(0, n) for n >= 0 *)
Take(list, n) == SubSeq(list, 1, IF n < Len(list) THEN n ELSE Len(list))

(* const searchOptions = {query, sources: options.sources || [...],         *)
(* maxResults: options.maxResults || 10}: options is a function whose       *)
(* domain holds the fields that are given; 0 is falsy, [] is not.           *)
SearchOptions(error, options) ==
  [query |-> extractSearchQuery(error),
   sources |-> IF "sources" \in DOMAIN options THEN options.sources ELSE DefaultSources,
   maxResults |-> IF "maxResults" \in DOMAIN options /\ options.maxResults # 0
                  THEN options.maxResults ELSE DEFAULT_MAX]

(* What a search endpoint does with a request: the fetch rejects, or the    *)
(* response is not ok, or it is ok with a number of items.                  *)
Replies ==
  {[threw |-> TRUE, ok |-> FALSE, items |-> 0], [threw |-> FALSE, ok |-> FALSE, items |-> 0]}
    \cup {[threw |-> FALSE, ok |-> TRUE, items |-> k] : k \in 0..2}
SearchFails(reply) == reply.threw \/ ~reply.ok

(* searchStackOverflow / searchGitHubIssues after the response: the items   *)
(* mapped to Suggestions.  The field for is a history field: the Signal     *)
(* the request was made for.                                                *)
SearchResults(src, reply, for) ==
  [n \in 1..reply.items |-> [id |-> <<src, n>>, source |-> src, for |-> for]]

(* searchMDN: the entries of mdnMappings whose name the query includes,     *)
(* both in lower case, until there are maxResults of them.                  *)
MdnTypes == << <<"T", "y", "p", "e", "E", "r", "r", "o", "r">>, <<"R", "e", "f", "e", "r", "e", "n", "c", "e", "E", "r", "r", "o", "r">>,
              <<"S", "y", "n", "t", "a", "x", "E", "r", "r", "o", "r">>, <<"R", "a", "n", "g", "e", "E", "r", "r", "o", "r">> >>
ToLowerCase(str) ==
  [i \in 1..Len(str) |-> CASE str[i] = "E" -> "e" [] str[i] = "R" -> "r"
                           [] str[i] = "S" -> "s" [] str[i] = "T" -> "t"
                           [] OTHER -> str[i]]
Includes(str, w) == \E p \in 1..Len(str) : StartsAt(str, p, w)

RECURSIVE MdnLoop(_, _, _, _, _)
MdnLoop(k, query, maxResults, found, for) ==
  IF k > Len(MdnTypes) THEN found
  ELSE IF Includes(ToLowerCase(query), ToLowerCase(MdnTypes[k]))
       THEN LET pushed == Append(found, [id |-> <<"mdn", k>>, source |-> "mdn", for |-> for])
            IN IF Len(pushed) >= maxResults THEN pushed
               ELSE MdnLoop(k + 1, query, maxResults, pushed, for)
       ELSE MdnLoop(k + 1, query, maxResults, found, for)

searchMDN(query, maxResults, for) == MdnLoop(1, query, maxResults, <<>>, for)

(* suggestions.push(...results) *)
KeepOnly(call, src, results) ==
  [call EXCEPT !.suggestions = results, !.got = Append(@, [source |-> src, results |-> results])]
PushResults(call, src, results) ==
  [call EXCEPT !.suggestions = @ \o results, !.got = Append(@, [source |-> src, results |-> results])]

(* catch (error) { console.error(...) } *)
CatchRethrow(call, src) == [call EXCEPT !.failed = @ \cup {src}, !.at = "rejected"]
Catch(call, src) == [call EXCEPT !.failed = @ \cup {src}]

RECURSIVE RunFrom(_, _)
(* getSuggestions from its i-th `if (searchOptions.sources.includes(...))`   *)
(* to the next await of a request, or to the return.                        *)
RunFrom(call, i) ==
  IF call.at = "rejected" THEN call
  ELSE IF i > Len(Sources)
  THEN [call EXCEPT !.at = "returned", !.result = Take(call.suggestions, call.maxResults)]
  ELSE IF Sources[i] \notin call.sources THEN RunFrom(call, i + 1)
  ELSE IF Sources[i] = "mdn"
  THEN RunFrom(PushResults(call, "mdn", searchMDN(call.query, call.maxResults, call.error)), i + 1)
  ELSE [call EXCEPT !.at = Sources[i], !.log = Append(@, <<"request", Sources[i]>>)]

(* The call from its start to its first await. *)
NewCall(n, caller, id, options) ==
  LET searchOptions == SearchOptions(ErrorOf(id), options)
  IN RunFrom([n |-> n, caller |-> caller, error |-> id, options |-> options,
              query |-> searchOptions.query, sources |-> searchOptions.sources,
              maxResults |-> searchOptions.maxResults,
              suggestions |-> <<>>, at |-> "start", result |-> <<>>,
              log |-> <<>>, got |-> <<>>, failed |-> {}], 1)

(* The call from the settlement of the request it awaits to its next await. *)
Settled(call, reply) ==
  LET src == call.at
      noted == [call EXCEPT !.log = Append(@, <<"settled", src>>)]
  IN RunFrom(IF SearchFails(reply) THEN Catch(noted, src)
             ELSE PushResults(noted, src, SearchResults(src, reply, call.error)),
             SourceIndex(src) + 1)

Over(call) == call.at \in {"returned", "rejected"}

(* What follows a step of a call: a call that is over leaves, and the       *)
(* continuation of its caller runs; for SuggestionPanel.fetchSuggestions    *)
(* that is setSuggestions(results), or setSuggestions([]) in its catch,     *)
(* and setLoading(false).                                                   *)
Continue(call, others) ==
  /\ calls' = IF Over(call) THEN others ELSE others \cup {call}
  /\ IF Over(call) /\ call.caller = "panel"
       THEN /\ suggestions' = IF call.at = "returned" THEN call.result ELSE <<>>
            /\ loading' = FALSE
       ELSE UNCHANGED <<suggestions, loading>>

(* The options a caller passes: any of the two fields, or none. *)
SourceSets == SUBSET SeqToSet(Sources)
MaxChoices == {0, 1, 2, 3}
OptionChoices ==
  {<<>>} \cup {[sources |-> x] : x \in SourceSets}
         \cup {[maxResults |-> m] : m \in MaxChoices}
         \cup {[sources |-> x, maxResults |-> m] : x \in SourceSets, m \in MaxChoices}

(* A caller other than the panel calls getSuggestions. *)
GetSuggestions(id, options) ==
  /\ LET call == NewCall(0, "direct", id, options)
     IN /\ Continue(call, calls)
        /\ last' = [op |-> "getSuggestions", call |-> call]
  /\ UNCHANGED selectedError
  /\ UNCHANGED aggVars
  /\ UNCHANGED agentVars
  /\ UNCHANGED clock
  /\ UNCHANGED appVars

(* The request a call awaits settles. *)
RequestSettles(call, reply) ==
  /\ call \in calls
  /\ LET next == Settled(call, reply)
     IN /\ Continue(next, calls \ {call})
        /\ last' = [op |-> "settled", reply |-> reply, call |-> next]
  /\ UNCHANGED selectedError
  /\ UNCHANGED aggVars
  /\ UNCHANGED agentVars
  /\ UNCHANGED clock
  /\ UNCHANGED appVars

----------------------------------------------------------------------------
(* Suggestion panel: SuggestionPanel, its effect on selectedError and        *)
(* fetchSuggestions.                                                        *)

(* The prop selectedError changes to the Signal id, or to null.  The effect  *)
(* runs: fetchSuggestions(selectedError), which sets loading and awaits      *)
(* getSuggestions(error, {maxResults: 20}), or setSuggestions([]).  With    *)
(* the default sources the call is suspended at its first request.          *)
SelectError(id) ==
  /\ budget > 0
  /\ budget' = budget - 1
  /\ id # selectedError
  /\ selectedError' = id
  /\ IF id = "null"
       THEN /\ suggestions' = <<>>
            /\ UNCHANGED <<calls, loading>>
            /\ last' = [op |-> "select", error |-> id]
       ELSE LET call == NewCall(budget, "panel", id, [maxResults |-> PANEL_MAX])
            IN /\ calls' = calls \cup {call}
               /\ loading' = TRUE
               /\ UNCHANGED suggestions
               /\ last' = [op |-> "select", error |-> id, call |-> call]
  /\ UNCHANGED <<channel, timers, prng, headPending, emitted, sends>>
  /\ UNCHANGED aggVars
  /\ UNCHANGED clock
  /\ UNCHANGED appVars

(* The answers of the search endpoints told apart for the panel. *)
PanelReplies == {reply \in Replies : reply.threw \/ reply.items = 1}

----------------------------------------------------------------------------
(* Feedback log: SuggestionService.saveSuggestionFeedback.  The item         *)
(* 'bugtrace-feedback' of the extension's localStorage is absent or holds   *)
(* the list this code wrote.  The panel calls saveSuggestionFeedback from a *)
(* click handler; the promise of getFeedback is resolved when it is         *)
(* awaited, so the call runs to its end before any other handler starts.    *)
(* The field n of an entry is a history field: the serial number of the     *)
(* report.                                                                  *)

FEEDBACK_LIMIT == 1000   \* "Keep only last 1000 feedback entries"

(* getFeedback: stored ? JSON.parse(stored) : [] *)
getFeedback(item) == IF item.stored THEN item.list ELSE <<>>

SpliceTail(list) ==
  IF Len(list) > FEEDBACK_LIMIT THEN SubSeq(list, 1, FEEDBACK_LIMIT) ELSE list

(* if (length > 1000) existingFeedback.splice(0, length - 1000) *)
SpliceHead(list) ==
  IF Len(list) > FEEDBACK_LIMIT
  THEN SubSeq(list, Len(list) - FEEDBACK_LIMIT + 1, Len(list))
  ELSE list

SuggestionIds == {"so-1", "gh-2"}

(* The time that passes before a click, in milliseconds. *)
Elapsed == {0, 1}

SaveSuggestionFeedback(suggestionId, helpful, elapsed) ==
  /\ budget > 0
  /\ budget' = budget - 1
  /\ clock' = clock + elapsed
  /\ reported' = reported + 1
  /\ LET entry == [suggestionId |-> suggestionId, helpful |-> helpful,
                   timestamp |-> clock', n |-> reported']
         existingFeedback == Append(getFeedback(feedback), entry)
     IN /\ feedback' = [stored |-> TRUE, list |-> SpliceHead(existingFeedback)]
        /\ last' = [op |-> "saveSuggestionFeedback", feedback |-> entry]
  /\ UNCHANGED <<channel, timers, prng, headPending, emitted, sends>>
  /\ UNCHANGED aggVars
  /\ UNCHANGED panelVars
  /\ UNCHANGED githubVars
  /\ UNCHANGED detectorVars
  /\ UNCHANGED xhr

(* The log after the panel has been in use for a while. *)
PastFeedback ==
  [i \in 1..(FEEDBACK_LIMIT - 1) |->
     [suggestionId |-> IF i % 3 = 0 THEN "gh-2" ELSE "so-1", helpful |-> i % 2 = 0,
      timestamp |-> i - FEEDBACK_LIMIT, n |-> i]]

----------------------------------------------------------------------------
(* GitHub service: GitHubService.  One instance is built when the module    *)
(* loads; its constructor starts loadStoredToken.  A method runs up to its  *)
(* await in the step that calls it and resumes when what it awaits          *)
(* settles.  chrome.storage.local answers the requests of a page in the     *)
(* order they were made; a request takes effect when it settles.            *)

Tokens == {"t1", "t2"}
NOT_AUTHENTICATED == "GitHub not authenticated"
INVALID_FORMAT == "Invalid repository format"

OctokitSet == octokit # "null"

(* isConnected(): this.isAuthenticated && this.octokit !== null *)
isConnected == isAuthenticated /\ octokit # "null"

(* A method called from the pages of the extension. *)
Called ==
  /\ budget > 0
  /\ budget' = budget - 1
  /\ UNCHANGED <<channel, timers, prng, headPending, emitted, sends>>
  /\ UNCHANGED aggVars
  /\ UNCHANGED panelVars
  /\ UNCHANGED feedbackVars
  /\ UNCHANGED detectorVars
  /\ UNCHANGED xhr
  /\ UNCHANGED clock

(* A request of the service settles. *)
Resumed ==
  /\ UNCHANGED agentVars
  /\ UNCHANGED aggVars
  /\ UNCHANGED panelVars
  /\ UNCHANGED feedbackVars
  /\ UNCHANGED detectorVars
  /\ UNCHANGED xhr
  /\ UNCHANGED clock

(* authenticate(token) up to await octokit.rest.users.getAuthenticated() *)
Authenticate(token) ==
  /\ Called
  /\ octokit' = token
  /\ requests' = requests + 1
  /\ LET call == [token |-> token, n |-> budget, requests |-> 1]
     IN /\ validations' = validations \cup {call}
        /\ last' = [op |-> "authenticate", call |-> call]
  /\ UNCHANGED <<isAuthenticated, github_token, storageOps>>

(* The validation request settles: authenticate goes on to                  *)
(* chrome.storage.local.set({github_token: token}), or to its catch.        *)
ValidationSettles(call, ok) ==
  /\ Resumed
  /\ call \in validations
  /\ validations' = validations \ {call}
  /\ IF ok
       THEN /\ storageOps' = Append(storageOps, [fn |-> "authenticate", call |-> call])
            /\ last' = [op |-> "validated", call |-> call]
            /\ UNCHANGED isAuthenticated
       ELSE /\ isAuthenticated' = FALSE
            /\ last' = [op |-> "authenticate returned", call |-> call, result |-> FALSE]
            /\ UNCHANGED storageOps
  /\ UNCHANGED <<octokit, github_token, requests>>

(* disconnect() up to await chrome.storage.local.remove('github_token') *)
Disconnect ==
  /\ Called
  /\ storageOps' = Append(storageOps, [fn |-> "disconnect"])
  /\ last' = [op |-> "disconnect"]
  /\ UNCHANGED <<octokit, isAuthenticated, github_token, validations, requests>>

(* The oldest request to chrome.storage.local settles and the method that   *)
(* awaits it runs to its end: loadStoredToken after get, authenticate       *)
(* after set, disconnect after remove.  A rejected request changed          *)
(* nothing and takes the method to its catch.                               *)
StorageSettles(ok) ==
  /\ Resumed
  /\ storageOps # <<>>
  /\ storageOps' = Tail(storageOps)
  /\ LET req == Head(storageOps)
     IN CASE req.fn = "loadStoredToken" ->
               /\ IF ok /\ github_token # "none"
                    THEN octokit' = github_token /\ isAuthenticated' = TRUE
                    ELSE UNCHANGED <<octokit, isAuthenticated>>
               /\ UNCHANGED github_token
               /\ last' = [op |-> "loadStoredToken returned", ok |-> ok]
          [] req.fn = "authenticate" ->
               /\ github_token' = IF ok THEN req.call.token ELSE github_token
               /\ isAuthenticated' = ok
               /\ UNCHANGED octokit
               /\ last' = [op |-> "authenticate returned", call |-> req.call, result |-> ok]
          [] req.fn = "disconnect" ->
               /\ IF ok
                    THEN /\ github_token' = "none"
                         /\ octokit' = "null"
                         /\ isAuthenticated' = FALSE
                    ELSE UNCHANGED <<github_token, octokit, isAuthenticated>>
               /\ last' = [op |-> "disconnect returned", ok |-> ok]
  /\ UNCHANGED <<validations, requests>>

(* The methods that talk to GitHub, and those of them that take a           *)
(* repository name "owner/repo".                                            *)
Operations == {"getCurrentUser", "getUserRepositories", "createIssue",
               "searchSimilarErrors", "searchCodeSnippets", "getRepositoryInfo"}
TakesRepo == {"createIssue", "getRepositoryInfo"}

(* A method up to its request: if (!this.isConnected()) throw ..., the      *)
(* check of the repository name, then the request.  The answer of GitHub    *)
(* changes no field of the service.                                         *)
Operation(name, repoOk) ==
  /\ Called
  /\ LET threw == IF ~isConnected THEN NOT_AUTHENTICATED
                  ELSE IF name \in TakesRepo /\ ~repoOk THEN INVALID_FORMAT
                  ELSE "nothing"
     IN /\ requests' = IF threw = "nothing" THEN requests + 1 ELSE requests
        /\ last' = [op |-> name, threw |-> threw]
  /\ UNCHANGED <<octokit, isAuthenticated, github_token, storageOps, validations>>

----------------------------------------------------------------------------
(* Observer: ErrorDetector (one instance, getInstance) and the effect of    *)
(* App that registers its callbacks and starts it.  A callback is named by  *)
(* the function and the run of the effect that created it.  A context c     *)
(* holds what the callbacks have done: errors, the state of App, and        *)
(* notifications, the history of the calls.                                 *)

APP_MAX == 100        \* App: [error, ...prev].slice(0, 100)

(* The class declares no field aiService and nothing assigns one, so       *)
(* this.aiService is undefined.                                             *)
aiService == "undefined"

(* The item 'bugtrace-errors' of the localStorage of the extension's        *)
(* origin: the content script writes the item of the page's origin, and     *)
(* nothing writes this one.                                                 *)
ExtensionItem == [stored |-> FALSE, list |-> <<>>]

DetectorCtx == [errors |-> errors, notifications |-> notifications]

(* handleNewError: setErrors(prev => [error, ...prev].slice(0, 100)) *)
handleNewError(list, error) == Take(<<error>> \o list, APP_MAX)

(* handleNetworkError: a new entry with id Date.now().toString(), then      *)
(* handleNewError.                                                          *)
handleNetworkError(list, networkError) ==
  handleNewError(list, [id |-> [ms |-> clock], timestamp |-> clock, type |-> "network",
                        severity |-> "error", url |-> networkError.url])

(* callback(error) inside the try of a notify method *)
Callback(c, list, callback, error) ==
  [errors |-> IF callback.fn = "handleNewError"
              THEN handleNewError(c.errors, error)
              ELSE handleNetworkError(c.errors, error),
   notifications |-> Append(c.notifications,
                            [list |-> list, callback |-> callback, id |-> error.id,
                             type |-> error.type, listening |-> isListening])]

RECURSIVE NotifyFrom(_, _, _, _, _)
NotifyFrom(c, list, callbacks, k, error) ==
  IF k > Len(callbacks) THEN c
  ELSE NotifyFrom(Callback(c, list, callbacks[k], error), list, callbacks, k + 1, error)

(* notifyConsoleListeners / notifyNetworkListeners *)
notifyConsoleListeners(c, error) == NotifyFrom(c, "console", consoleListeners, 1, error)
notifyNetworkListeners(c, error) == NotifyFrom(c, "network", networkListeners, 1, error)

(* The callback of the GET_ERRORS request, for one entry of the response. *)
SyncNotify(c, error) == notifyConsoleListeners(c, error)

(* processError: this.aiService.isEnabled() throws a TypeError, the async   *)
(* function ends with a rejected promise and the lines that notify by       *)
(* error.type are not reached.                                              *)
processError(c, error) ==
  IF aiService = "undefined" THEN c
  ELSE IF error.type = "network" THEN notifyNetworkListeners(c, error)
  ELSE notifyConsoleListeners(c, error)

RECURSIVE SyncEach(_, _, _)
SyncEach(c, list, k) ==
  IF k > Len(list) THEN c ELSE SyncEach(SyncNotify(c, list[k]), list, k + 1)

RECURSIVE ProcessEach(_, _, _)
ProcessEach(c, list, k) ==
  IF k > Len(list) THEN c ELSE ProcessEach(processError(c, list[k]), list, k + 1)

(* checkLocalStorageErrors: if (stored) JSON.parse(stored).forEach(...) *)
checkLocalStorageErrors(c, item) ==
  IF item.stored THEN ProcessEach(c, item.list, 1) ELSE c

DetectorStep(c) ==
  /\ errors' = c.errors
  /\ notifications' = c.notifications
  /\ UNCHANGED <<channel, timers, prng, headPending, emitted, sends>>
  /\ UNCHANGED aggVars
  /\ UNCHANGED panelVars
  /\ UNCHANGED feedbackVars
  /\ UNCHANGED githubVars
  /\ UNCHANGED xhr
  /\ UNCHANGED clock

(* startListening(): the request for the buffer is sent and the interval    *)
(* is set, unless the detector listens already.  injectContentScript makes  *)
(* the active tab call console.error, which the pages do at any time.       *)
startListening ==
  IF isListening
  THEN UNCHANGED <<isListening, attached, syncs, intervals>>
  ELSE /\ isListening' = TRUE
       /\ attached' = TRUE
       /\ syncs' = syncs + 1
       /\ intervals' = intervals + 1

(* The effect of App runs: onConsoleError(handleNewError),                  *)
(* onNetworkError(handleNetworkError), startListening().                    *)
Mount ==
  /\ budget > 0
  /\ budget' = budget - 1
  /\ ~mounted
  /\ mounted' = TRUE
  /\ LET run == Len(consoleListeners) + 1
     IN /\ consoleListeners' = Append(consoleListeners, [fn |-> "handleNewError", run |-> run])
        /\ networkListeners' = Append(networkListeners, [fn |-> "handleNetworkError", run |-> run])
        /\ last' = [op |-> "mount", run |-> run]
  /\ startListening
  /\ DetectorStep(DetectorCtx)
  /\ UNCHANGED delivered

(* The cleanup of the effect: stopListening(). *)
Unmount ==
  /\ budget > 0
  /\ budget' = budget - 1
  /\ mounted
  /\ mounted' = FALSE
  /\ isListening' = FALSE
  /\ attached' = FALSE
  /\ last' = [op |-> "unmount"]
  /\ DetectorStep(DetectorCtx)
  /\ UNCHANGED <<consoleListeners, networkListeners, intervals, syncs, delivered>>

(* The aggregator answers a GET_ERRORS request of the panel and the         *)
(* callback given to sendMessage runs.                                      *)
SyncResponds ==
  /\ syncs > 0
  /\ syncs' = syncs - 1
  /\ LET response == SyncResponse(globalErrors)
     IN /\ DetectorStep(SyncEach(DetectorCtx, response.errors, 1))
        /\ last' = [op |-> "GET_ERRORS response", response |-> response]
  /\ UNCHANGED <<isListening, attached, consoleListeners, networkListeners, intervals,
                 delivered, mounted, budget>>

(* The latest ERROR_UPDATE message reaches the panel page: handleMessage    *)
(* runs if it is a listener of onMessage.                                   *)
HandleMessage ==
  /\ delivered < broadcast.n
  /\ delivered' = broadcast.n
  /\ DetectorStep(IF attached THEN ProcessEach(DetectorCtx, broadcast.errors, 1)
                  ELSE DetectorCtx)
  /\ last' = [op |-> "ERROR_UPDATE", handled |-> attached]
  /\ UNCHANGED <<isListening, attached, consoleListeners, networkListeners, intervals,
                 syncs, mounted, budget>>

(* One of the intervals set by startListening fires. *)
IntervalFires ==
  /\ intervals > 0
  /\ DetectorStep(checkLocalStorageErrors(DetectorCtx, ExtensionItem))
  /\ last' = [op |-> "interval", listening |-> isListening, running |-> intervals]
  /\ UNCHANGED <<isListening, attached, consoleListeners, networkListeners, intervals,
                 syncs, delivered, mounted, budget>>

(* The buffer when the panel is opened on pages that have been in use: a    *)
(* console signal of tab 1 and a network signal of tab 2.                   *)
SeenBuffer ==
  << StoredEntry([id |-> [ms |-> 0 - 2, rnd |-> 0], timestamp |-> 0 - 2, type |-> "console",
                  severity |-> "error", message |-> "page message", url |-> TabUrl(1),
                  em |-> 0 - 2], 1, 0 - 2, 1),
     StoredEntry([id |-> [ms |-> 0 - 1, rnd |-> 1], timestamp |-> 0 - 1, type |-> "network",
                  severity |-> "error", message |-> HttpMessage(500), url |-> RequestUrl,
                  status |-> 500, em |-> 0 - 1], 2, 0 - 1, 2) >>

----------------------------------------------------------------------------
(* Initial states.  The pages are at one of three stages: just loaded (both  *)
(* timers pending), open for more than a second (the test error is out),  *)
(* or open for more than two (the scan is over and its HEAD request is in   *)
(* flight).  PastBuffer is the buffer after pages have been open for a      *)
(* while: their test errors and console output fill it to its cap.          *)

PastEntry(i) ==
  LET tab == (i % NumTabs) + 1
      level == IF i % 2 = 1 \/ i <= NumTabs THEN "error" ELSE "warn"
      at == i - MAX_ERRORS - 1
  IN StoredEntry([id |-> [ms |-> at, rnd |-> i % RandSpace], timestamp |-> at,
                  type |-> "console", severity |-> ConsoleSeverity(level),
                  message |-> IF i <= NumTabs THEN TestMessage ELSE "page message",
                  url |-> TabUrl(tab), em |-> at],
                 tab, at, i)

PastBuffer == [i \in 1..MAX_ERRORS |-> PastEntry(i)]

Stages == {"loaded", "tested", "scanned"}

(* The state Math.random starts from in each page when nothing is said. *)
Seeds == [t \in Tabs |-> t]

InitPipeline(buffer, stage, handlers, seeds) ==
  /\ globalErrors = buffer
  /\ accepted = Len(buffer)
  /\ accepts = [x \in {} |-> 0]
  /\ broadcast = [n |-> 0, errors |-> <<>>]
  /\ channel = [t \in Tabs |-> <<>>]
  /\ clock = 0
  /\ timers = [t \in Tabs |-> CASE stage = "loaded" -> {"scan", "test"}
                                [] stage = "tested" -> {"scan"}
                                [] OTHER -> {}]
  /\ headPending = [t \in Tabs |-> stage = "scanned"]
  /\ prng = seeds
  /\ emitted = 0
  /\ budget = handlers
  /\ sends = [x \in {} |-> 0]
  /\ last = [op |-> "init"]
  /\ calls = {}
  /\ selectedError = "null"
  /\ suggestions = <<>>
  /\ loading = FALSE

(* new GitHubService(): the fields, and loadStoredToken at its await of     *)
(* chrome.storage.local.get('github_token').                                *)
InitGitHub(stored) ==
  /\ octokit = "null"
  /\ isAuthenticated = FALSE
  /\ github_token = stored
  /\ storageOps = << [fn |-> "loadStoredToken"] >>
  /\ validations = {}
  /\ requests = 0

(* The pages' XMLHttpRequest objects. *)
InitXhr(object) == xhr = [t \in Tabs |-> object]

(* ErrorDetector.getInstance() and App before its effect has run. *)
InitDetector ==
  /\ isListening = FALSE
  /\ attached = FALSE
  /\ consoleListeners = <<>>
  /\ networkListeners = <<>>
  /\ intervals = 0
  /\ syncs = 0
  /\ delivered = 0
  /\ mounted = FALSE
  /\ errors = <<>>
  /\ notifications = <<>>

(* The extension's own pages before they are used. *)
InitApp ==
  /\ feedback = [stored |-> FALSE]
  /\ reported = 0
  /\ InitGitHub("none")
  /\ InitDetector

InitWith(buffer, stage, handlers, seeds) ==
  InitPipeline(buffer, stage, handlers, seeds) /\ InitApp /\ InitXhr(SentXhr)

(* The aggregator and the relay, with pages that call console.error while    *)
(* the extension is reachable and the stored item is intact: from the       *)
(* start of the service worker, or from a full buffer with one call less.   *)
Init ==
  \/ InitWith(<<>>, "loaded", MaxEmit, Seeds)
  \/ InitWith(PastBuffer, "tested", MaxEmit - 1, Seeds)

Next ==
  \/ \E t \in Tabs : ErrorCaptured(t)
  \/ GetErrors
  \/ \E t \in Tabs, status \in {"loading", "complete"} : TabUpdated(t, status)
  \/ \E t \in Tabs : ConsoleCall(t, "error", NormalEnv)

Spec == Init /\ [][Next]_vars

(* The capture agent and the relay up to the aggregator's buffer: every      *)
(* handler of content-script.js.                                            *)
InitAgent == \E stage \in Stages : InitWith(<<>>, stage, MaxCalls, Seeds)

NextAgent ==
  \/ \E t \in Tabs, level \in ConsoleLevels, env \in Envs : ConsoleCall(t, level, env)
  \/ \E t \in Tabs, env \in Envs : WindowError(t, env)
  \/ \E t \in Tabs, env \in Envs : UnhandledRejection(t, env)
  \/ \E t \in Tabs, env \in Envs : ComponentDidCatch(t, env)
  \/ \E t \in Tabs, d \in Durations :
        \E env \in EnvsFor(d > SLOW_MEASURE) : PerformanceEntry(t, d, env)
  \/ \E t \in Tabs, orig \in FetchOutcomes :
        \E env \in EnvsFor(Captured(orig)) : PageFetch(t, orig, env)
  \/ \E t \in Tabs, x \in XhrChanges :
        \E env \in EnvsFor(x[1] = DONE /\ x[2] >= 400) : XhrReadyStateChange(t, x[1], x[2], env)
  \/ \E t \in Tabs, scripts \in ScriptLists, cookies \in CookieLists :
        \E env \in EnvsFor(ScanScripts(scripts) # <<>> \/ CookieItems(t, cookies) # <<>>) :
           ScanTimer(t, scripts, cookies, env)
  \/ \E t \in Tabs, env \in Envs : TestErrorTimer(t, env)
  \/ \E t \in Tabs, orig \in FetchOutcomes, present \in HeaderSets :
        \E env \in EnvsFor(Captured(orig) \/ HeaderItems(SecurityHeaders, present) # <<>>) :
           HeadSettles(t, orig, present, env)
  \/ \E t \in Tabs : ErrorCaptured(t)

SpecAgent == InitAgent /\ [][NextAgent]_vars

(* Pages that write to the console, the relay and the accepts, for every    *)
(* state the pages' random number generators can start from.                *)
InitIds == \E seeds \in [Tabs -> 0..(RandSpace - 1)] : InitWith(<<>>, "loaded", MaxEmit, seeds)

NextIds ==
  \/ \E t \in Tabs, level \in ConsoleLevels : ConsoleCall(t, level, NormalEnv)
  \/ \E t \in Tabs : ErrorCaptured(t)

SpecIds == InitIds /\ [][NextIds]_vars

(* The query extractor alone, for every message and kind. *)
InitQuery == InitWith(<<>>, "loaded", MaxCalls, Seeds)

(* One experiment in a behaviour. *)
NextQuery ==
  /\ last.op = "init"
  /\ \E message \in Messages, kind \in QueryKinds : ExtractSearchQuery(message, kind)

SpecQuery == InitQuery /\ [][NextQuery]_vars

(* One call of getSuggestions by a caller that passes any options, and the  *)
(* search endpoints.                                                        *)
InitSuggest == InitWith(<<>>, "loaded", MaxCalls, Seeds)

NextSuggest ==
  \/ /\ last.op = "init"
     /\ \E id \in ErrorIds, options \in OptionChoices : GetSuggestions(id, options)
  \/ \E call \in calls, reply \in Replies : RequestSettles(call, reply)

SpecSuggest == InitSuggest /\ [][NextSuggest]_vars

(* The panel while the user changes the selected Signal, and the search     *)
(* endpoints.                                                               *)
InitPanel == InitWith(<<>>, "loaded", MaxSelect, Seeds)

NextPanel ==
  \/ \E id \in ErrorIds \cup {"null"} : SelectError(id)
  \/ \E call \in calls, reply \in PanelReplies : RequestSettles(call, reply)

SpecPanel == InitPanel /\ [][NextPanel]_vars

(* The feedback buttons of the panel, from an empty log or from a log one    *)
(* entry short of its limit.                                                *)
InitFeedback ==
  /\ InitPipeline(<<>>, "loaded", MaxReports, Seeds)
  /\ \/ feedback = [stored |-> FALSE] /\ reported = 0
     \/ feedback = [stored |-> TRUE, list |-> PastFeedback] /\ reported = Len(PastFeedback)
  /\ InitGitHub("none")
  /\ InitDetector
  /\ InitXhr(SentXhr)

NextFeedback ==
  \E suggestionId \in SuggestionIds, helpful \in BOOLEAN, elapsed \in Elapsed :
     SaveSuggestionFeedback(suggestionId, helpful, elapsed)

SpecFeedback == InitFeedback /\ [][NextFeedback]_vars

(* The GitHub service from the load of its module, with or without a token  *)
(* stored by an earlier session, and the pages that call it.                *)
InitGitHubService ==
  /\ InitPipeline(<<>>, "loaded", MaxRequests, Seeds)
  /\ feedback = [stored |-> FALSE]
  /\ reported = 0
  /\ \E stored \in Tokens \cup {"none"} : InitGitHub(stored)
  /\ InitDetector
  /\ InitXhr(SentXhr)

NextGitHub ==
  \/ \E token \in Tokens : Authenticate(token)
  \/ \E call \in validations, ok \in BOOLEAN : ValidationSettles(call, ok)
  \/ Disconnect
  \/ \E ok \in BOOLEAN : StorageSettles(ok)
  \/ \E name \in Operations, repoOk \in BOOLEAN : Operation(name, repoOk)

SpecGitHub == InitGitHubService /\ [][NextGitHub]_vars

(* The panel page with its observer, the aggregator and pages that call     *)
(* console.error, from an empty buffer or from one that holds signals.      *)
InitObserver ==
  \/ InitWith(<<>>, "loaded", MaxEvents, Seeds)
  \/ InitWith(SeenBuffer, "loaded", MaxEvents, Seeds)

NextDetector ==
  \/ Mount
  \/ Unmount
  \/ SyncResponds
  \/ HandleMessage
  \/ IntervalFires
  \/ \E t \in Tabs : ConsoleCall(t, "error", NormalEnv)
  \/ \E t \in Tabs : ErrorCaptured(t)

SpecDetector == InitObserver /\ [][NextDetector]_vars

(* Pages that use one XMLHttpRequest object each, from its construction,    *)
(* while the extension is reachable and the stored item is intact.          *)
InitXhrPages == InitPipeline(<<>>, "loaded", MaxXhr, Seeds) /\ InitApp /\ InitXhr(FreshXhr)

NextXhr ==
  \/ \E t \in Tabs : XhrSetHandler(t)
  \/ \E t \in Tabs : XhrSend(t)
  \/ \E t \in Tabs, x \in XhrChanges : XhrReadyStateChange(t, x[1], x[2], NormalEnv)

SpecXhr == InitXhrPages /\ [][NextXhr]_vars

----------------------------------------------------------------------------
(* Properties *)

AgentOps == {"console", "error", "unhandledrejection", "componentDidCatch",
             "performance", "fetch", "xhr", "scan", "test", "head"}

(* C1: after every handler the buffer holds at most 200 entries, and when an *)
(* accept overflows it exactly one entry is removed, the one that arrived   *)
(* before every entry that stays, whatever its severity.                    *)
BufferBound ==
  /\ Len(globalErrors) <= MAX_ERRORS
  /\ last.op = "ERROR_CAPTURED" =>
       /\ Cardinality(last.evicted) <= 1
       /\ last.evicted # {} => Len(globalErrors) = MAX_ERRORS
       /\ \A e \in last.evicted : \A i \in 1..Len(globalErrors) :
             e.arrival < globalErrors[i].arrival
       /\ globalErrors # <<>> /\ globalErrors[Len(globalErrors)].arrival = accepted

BufferBoundWitness ==
  /\ last.op = "ERROR_CAPTURED"
  /\ Len(globalErrors) = MAX_ERRORS
  /\ \E e \in last.evicted :
        /\ e.severity = "error"
        /\ \E i \in 1..Len(globalErrors) : globalErrors[i].severity = "warning"

(* C2: right after the handler of a navigation start (status 'loading') of   *)
(* tab T, no entry of the buffer has tabId T.                                *)
PurgedAfterNavigation ==
  (last.op = "tabs.onUpdated" /\ last.status = "loading") =>
     \A i \in 1..Len(globalErrors) : globalErrors[i].tabId # last.tab

PurgedAfterNavigationWitness ==
  /\ last.op = "tabs.onUpdated"
  /\ last.status = "loading"
  /\ last.held > 0
  /\ globalErrors # <<>>

(* C3: every step that changes the buffer sends one ERROR_UPDATE message     *)
(* that carries the new buffer.                                             *)
BroadcastOnEveryChange ==
  [][globalErrors' # globalErrors =>
       /\ broadcast'.n = broadcast.n + 1
       /\ broadcast'.errors = globalErrors']_vars

(* C4: the buffer, every broadcast and every sync response list the signals  *)
(* in the order in which they were accepted.                                *)
InArrivalOrder(buf) ==
  \A i \in 1..(Len(buf) - 1) : buf[i].arrival < buf[i + 1].arrival

AcceptanceOrder ==
  /\ InArrivalOrder(globalErrors)
  /\ InArrivalOrder(broadcast.errors)
  /\ last.op = "GET_ERRORS" => InArrivalOrder(last.response.errors)

AcceptanceOrderWitness ==
  /\ last.op = "GET_ERRORS"
  /\ broadcast.n > 0
  /\ last.response.errors = broadcast.errors
  /\ \E i \in 1..(Len(broadcast.errors) - 1) :
        /\ broadcast.errors[i].em > broadcast.errors[i + 1].em
        /\ broadcast.errors[i].tabId # broadcast.errors[i + 1].tabId

(* C5: every emission is sent exactly once and stored at most once; a send   *)
(* that fails puts nothing in flight and by itself makes no handler throw.  *)
InFlight(em) ==
  Cardinality({<<t, i>> \in Tabs \X (1..emitted) :
                  i <= Len(channel[t]) /\ channel[t][i].em = em})

Stored(em) == IF em \in DOMAIN accepts THEN accepts[em] ELSE 0

AtMostOnce ==
  /\ DOMAIN sends = 1..emitted
  /\ \A em \in DOMAIN sends :
        /\ sends[em] = 1
        /\ InFlight(em) + Stored(em) <= 1
  /\ (last.op \in AgentOps /\ ~last.env.up) =>
        /\ \A i \in 1..Len(last.out) : InFlight(last.out[i].em) + Stored(last.out[i].em) = 0
        /\ ("threw" \in DOMAIN last /\ last.env.item = "list") => ~last.threw

AtMostOnceWitness ==
  /\ last.op = "console"
  /\ ~last.env.up
  /\ last.env.item = "list"
  /\ Len(last.out) = 1
  /\ sends[last.out[1].em] = 1
  /\ ~last.threw

(* C6: the promise of the wrapped fetch settles the way the original fetch   *)
(* settled: same response, or same error.                                   *)
FetchTransparent ==
  last.op = "fetch" => last.seen = last.orig

(* C7: fetch and XMLHttpRequest wrappers emit a network Signal of severity   *)
(* warning for a response with status in [400,500), of severity error for a *)
(* status of 500 or more, and of severity error for a fetch that throws.    *)
SeverityOfStatus(s) == IF s >= 400 /\ s < 500 THEN "warning" ELSE "error"

NetworkSignal(e, sev) == e.type = "network" /\ e.severity = sev

SeverityMapping ==
  /\ last.op \in {"fetch", "xhr", "head"} =>
       \A i \in 1..Len(last.out) :
          LET e == last.out[i]
          IN e.type = "network" =>
               IF "status" \in DOMAIN e
               THEN e.status >= 400 /\ e.severity = SeverityOfStatus(e.status)
               ELSE e.severity = "error"
  /\ (last.op \in {"fetch", "head"} /\ last.orig.kind = "response" /\ last.orig.status >= 400) =>
       /\ last.out # <<>>
       /\ "status" \in DOMAIN last.out[1]
       /\ last.out[1].status = last.orig.status
       /\ NetworkSignal(last.out[1], SeverityOfStatus(last.orig.status))
  /\ (last.op \in {"fetch", "head"} /\ last.orig.kind = "rejected") =>
       /\ last.out # <<>>
       /\ NetworkSignal(last.out[1], "error")
  /\ (last.op = "xhr" /\ last.readyState = DONE /\ last.status >= 400) =>
       /\ last.out # <<>>
       /\ \A i \in 1..Len(last.out) :
             /\ "status" \in DOMAIN last.out[i]
             /\ last.out[i].status = last.status
             /\ NetworkSignal(last.out[i], SeverityOfStatus(last.status))

SeverityMappingWitness ==
  /\ last.op = "xhr"
  /\ last.readyState = DONE
  /\ last.status = 500
  /\ Len(last.out) = 1
  /\ last.out[1].severity = "error"

(* C8: every entry of the buffer has a kind among console, runtime, promise, *)
(* network, security, performance and a severity among info, warning,       *)
(* error, critical.                                                         *)
Kinds == {"console", "runtime", "promise", "network", "security", "performance"}
Severities == {"info", "warning", "error", "critical"}

WellFormedSignals ==
  \A i \in 1..Len(globalErrors) :
     /\ globalErrors[i].type \in Kinds
     /\ globalErrors[i].severity \in Severities

(* C9: a scan pass emits, for every detector, exactly one Signal carrying    *)
(* the number of matches if the detector matches anywhere in the page's     *)
(* scripts, and none if it does not.                                        *)
MatchCount(d, scripts) ==
  Cardinality(UNION { {<<k, i>> : i \in {j \in 1..Len(scripts[k]) : scripts[k][j] = d.token}} :
                      k \in 1..Len(scripts) })

SignalsOf(d, out) == {i \in 1..Len(out) : out[i].message = d.message}

OneSignalPerDetector ==
  last.op = "scan" =>
     \A k \in 1..Len(Detectors) :
        LET d == Detectors[k]
            n == MatchCount(d, last.scripts)
            sigs == SignalsOf(d, last.out)
        IN IF n > 0
           THEN /\ Cardinality(sigs) = 1
                /\ \A i \in sigs : "matches" \in DOMAIN last.out[i] /\ last.out[i].matches = n
           ELSE sigs = {}

(* C10: when the HEAD request of the header check is rejected, no Signal is  *)
(* emitted and no exception escapes.                                        *)
HeadFailureSilent ==
  (last.op = "head" /\ last.orig.kind = "rejected") =>
     /\ last.out = <<>>
     /\ ~last.threw

(* C11: an accept stores the Signal with the id, timestamp, kind, severity,   *)
(* message and url that the capture agent gave it.                          *)
SignalFields == {"id", "timestamp", "type", "severity", "message", "url"}

AcceptKeepsSignal ==
  [][\A t \in Tabs :
        (channel[t] # <<>> /\ channel'[t] = Tail(channel[t]) /\ accepted' = accepted + 1) =>
           \A f \in SignalFields :
              globalErrors'[Len(globalErrors')][f] = Head(channel[t])[f]]_vars

(* C13: a GET_ERRORS request is answered with the whole buffer in its order, *)
(* and the handler changes neither the buffer nor the broadcasts.           *)
SyncIsSnapshot ==
  [][last'.op = "GET_ERRORS" =>
       /\ last'.response.errors = globalErrors
       /\ globalErrors' = globalErrors
       /\ broadcast' = broadcast]_vars

SyncIsSnapshotWitness ==
  /\ last.op = "GET_ERRORS"
  /\ Len(last.response.errors) >= 2
  /\ last.response.errors = globalErrors
  /\ broadcast.n > 0
  /\ broadcast.errors # globalErrors

(* C12: no two entries of the buffer carry the same id. *)
UniqueIds ==
  \A i, j \in 1..Len(globalErrors) :
     i # j => globalErrors[i].id # globalErrors[j].id

(* C14: extracting the query from a signal whose message is an extracted    *)
(* query gives that query again.                                            *)
QueryIdempotent ==
  last.op = "extractSearchQuery" => last.again = last.query

(* C15: an extracted query has at most 100 characters, does not end with    *)
(* whitespace and contains no digit.                                        *)
QueryShape ==
  last.op = "extractSearchQuery" =>
     /\ Len(last.query) <= QUERY_LIMIT
     /\ last.query # <<>> => ~IsSpace(last.query[Len(last.query)])
     /\ \A i \in 1..Len(last.query) : last.query[i] \notin Digits

(* The calls of getSuggestions in a state: those suspended at an await and   *)
(* the one the last step ran.                                               *)
KnownCalls == calls \cup (IF "call" \in DOMAIN last THEN {last.call} ELSE {})
Position(log, event) == CHOOSE k \in 1..Len(log) : log[k] = event
NetworkSources == {"stackoverflow", "github"}
AllResults(call) == Concat([k \in 1..Len(call.got) |-> call.got[k].results])
RequestedMax(call) ==
  IF "maxResults" \in DOMAIN call.options THEN call.options.maxResults ELSE DEFAULT_MAX

(* C16: the request to a later selected source is issued before the request *)
(* to an earlier selected source has settled.                               *)
ConcurrentDispatch ==
  \A call \in KnownCalls :
     \A i, j \in 1..Len(Sources) :
        (/\ i < j
         /\ {Sources[i], Sources[j]} \subseteq call.sources \cap NetworkSources
         /\ <<"settled", Sources[i]>> \in SeqToSet(call.log)) =>
           /\ <<"request", Sources[j]>> \in SeqToSet(call.log)
           /\ Position(call.log, <<"request", Sources[j]>>)
                < Position(call.log, <<"settled", Sources[i]>>)

(* C17: a call in which exactly one selected source failed resolves; its    *)
(* result is made of the results of the other sources, in their order, with *)
(* at least the first of them up to the requested maximum, and holds        *)
(* nothing of the failed source.                                            *)
PartialFailureTolerated ==
  \A call \in KnownCalls :
     (Over(call) /\ Cardinality(call.failed) = 1) =>
        /\ call.at = "returned"
        /\ Take(call.result, RequestedMax(call)) = Take(AllResults(call), RequestedMax(call))
        /\ call.result = Take(AllResults(call), Len(call.result))
        /\ \A k \in 1..Len(call.result) : call.result[k].source \notin call.failed

PartialFailureToleratedWitness ==
  /\ last.op = "settled"
  /\ Over(last.call)
  /\ last.call.failed = {"stackoverflow"}
  /\ last.call.sources = SeqToSet(Sources)
  /\ \E a, b \in 1..Len(last.call.result) :
        last.call.result[a].source = "github" /\ last.call.result[b].source = "mdn"

(* C18: the result of a call that asks for at most m results has at most m  *)
(* entries, and exactly m if the sources returned at least m between them.  *)
CapRespected ==
  \A call \in KnownCalls :
     (call.at = "returned" /\ "maxResults" \in DOMAIN call.options) =>
        /\ Len(call.result) <= call.options.maxResults
        /\ Len(AllResults(call)) >= call.options.maxResults =>
              Len(call.result) = call.options.maxResults

(* C19: a call in which every selected source failed resolves with the      *)
(* empty list.                                                              *)
TotalFailureIsEmpty ==
  \A call \in KnownCalls :
     (Over(call) /\ call.sources # {} /\ call.failed = call.sources) =>
        /\ call.at = "returned"
        /\ call.result = <<>>

TotalFailureIsEmptyWitness ==
  /\ last.op = "settled"
  /\ last.reply.threw
  /\ Over(last.call)
  /\ last.call.failed = NetworkSources
  /\ last.call.sources = NetworkSources
  /\ last.call.result = <<>>

(* C20: when a call made for the panel is over, its results are written to  *)
(* the displayed list only if its Signal is still the selected one.         *)
StaleResultsDiscarded ==
  (last.op = "settled" /\ Over(last.call) /\ last.call.caller = "panel") =>
     last.call.error = selectedError

(* C23: the buffer is not empty after an accept, and a buffer that holds     *)
(* signals becomes empty only by the handler of a navigation start of the   *)
(* tab that all of its signals came from.                                   *)
EmptiedOnlyByPurge ==
  [][/\ last'.op = "ERROR_CAPTURED" => globalErrors' # <<>>
     /\ (globalErrors # <<>> /\ globalErrors' = <<>>) =>
          /\ last'.op = "tabs.onUpdated"
          /\ last'.status = "loading"
          /\ \A i \in 1..Len(globalErrors) : globalErrors[i].tabId = last'.tab]_vars

EmptiedOnlyByPurgeWitness ==
  /\ last.op = "tabs.onUpdated"
  /\ last.status = "loading"
  /\ last.held > 0
  /\ accepted > 0
  /\ globalErrors = <<>>

(* C23 as stated: once a signal has been accepted the buffer is never empty. *)
StaysPopulated == accepted > 0 => globalErrors # <<>>

(* C25: the handler of a tab update of tab T leaves the signals of the      *)
(* other tabs in the buffer, unchanged and in their order, and changes      *)
(* nothing else; an update that is not a navigation start changes nothing.  *)
NavigationFrame ==
  [][last'.op = "tabs.onUpdated" =>
       /\ SelectSeq(globalErrors', LAMBDA error : error.tabId # last'.tab)
            = SelectSeq(globalErrors, LAMBDA error : error.tabId # last'.tab)
       /\ last'.status # "loading" => globalErrors' = globalErrors
       /\ UNCHANGED <<accepted, accepts, broadcast, channel>>]_vars

NavigationFrameWitness ==
  /\ last.op = "tabs.onUpdated"
  /\ last.status = "loading"
  /\ last.held > 0
  /\ Len(globalErrors) >= 2
  /\ \E i \in 1..Len(globalErrors) : globalErrors[i].severity = "warning"

(* The ends of the error tokens the text begins with: the prefixes made of  *)
(* word characters that end in "Error".                                     *)
LeadingTokens(str) ==
  {n \in Len(ERROR)..RunEnd(str, 1, NonWords(str)) : StartsAt(str, n - Len(ERROR) + 1, ERROR)}

(* The ends of the words of the text that end in "Error", wherever they are. *)
ErrorTokens(str) ==
  {q \in Len(ERROR)..Len(str) :
     /\ StartsAt(str, q - Len(ERROR) + 1, ERROR)
     /\ q = Len(str) \/ ~IsWord(str[q + 1])}

WordStart(str, q) == MaxOf({0} \cup {k \in NonWords(str) : k < q}) + 1

FeedbackLogBound ==
  LET log == getFeedback(feedback)
  IN /\ Len(log) <= FEEDBACK_LIMIT
     /\ Len(log) = IF reported < FEEDBACK_LIMIT THEN reported ELSE FEEDBACK_LIMIT
     /\ \A i \in 1..Len(log) : log[i].n = reported - Len(log) + i
     /\ last.op = "saveSuggestionFeedback" => log[Len(log)] = last.feedback

FeedbackLogBoundWitness ==
  /\ last.op = "saveSuggestionFeedback"
  /\ reported > FEEDBACK_LIMIT
  /\ Len(feedback.list) = FEEDBACK_LIMIT
  /\ feedback.list[1].n = reported - FEEDBACK_LIMIT + 1

(* C22: an authenticate call that returns false has sent one validation     *)
(* request and leaves isConnected() false; a method called while            *)
(* isConnected() is false throws 'GitHub not authenticated' and sends no    *)
(* request.                                                                 *)
AuthFailureExplicit ==
  [][/\ (last'.op = "authenticate returned" /\ ~last'.result) =>
          /\ ~isConnected'
          /\ last'.call.requests = 1
          /\ requests' = requests
     /\ (last'.op \in Operations /\ ~isConnected /\ budget' < budget) =>
          /\ last'.threw = NOT_AUTHENTICATED
          /\ requests' = requests]_vars

AuthFailureExplicitWitness ==
  /\ last.op = "authenticate returned"
  /\ ~last.result
  /\ octokit = last.call.token
  /\ github_token \notin {"none", last.call.token}
  /\ requests = 2

(* C30: when disconnect has returned, isConnected() is false and no token   *)
(* is stored.                                                               *)
DisconnectClears ==
  last.op = "disconnect returned" => (~isConnected /\ github_token = "none")

(* C26: no callback has been called twice for the same signal id, and the   *)
(* error list of App holds no two entries with the same id.                 *)
NotifiedOncePerId ==
  /\ \A i, j \in 1..Len(notifications) :
        (/\ i # j
         /\ notifications[i].callback = notifications[j].callback) =>
           notifications[i].id # notifications[j].id
  /\ \A i, j \in 1..Len(errors) : i # j => errors[i].id # errors[j].id

(* C27: a network signal is given to the callbacks of onNetworkError only,  *)
(* any other signal to those of onConsoleError only.                        *)
RoutedByKind ==
  \A i \in 1..Len(notifications) :
     notifications[i].list = (IF notifications[i].type = "network" THEN "network" ELSE "console")

(* C28: a callback is called only while the detector listens, and at most   *)
(* one interval runs.                                                       *)
QuietWhenStopped ==
  /\ \A i \in 1..Len(notifications) : notifications[i].listening
  /\ intervals <= 1

(* C29: a ready-state change that ends a request with a status of 400 or    *)
(* more makes exactly one Signal, and every ready-state change calls the    *)
(* handler the page has set exactly once.                                   *)
OneSignalPerRequest ==
  last.op = "xhr" =>
     /\ (last.readyState = DONE /\ last.status >= 400) => Len(last.out) = 1
     /\ last.object.page => last.pageHandlerCalled

====
